---------------------------- MODULE Spec2Model ----------------------------
(***************************************************************************)
(* A model of src/src/Paths.ts (react-native-redash): the Path data model, *)
(* serialize, parse (the adapter over the normalized SVG commands),        *)
(* interpolatePath and getYForX.                                           *)
(*                                                                         *)
(* Numbers.  A JavaScript number is modelled in fixed point: the integer n *)
(* stands for the number n/2.  Every input of the model is a multiple of   *)
(* 1/2 and every interpolation it performs is at a breakpoint or half-way  *)
(* between two breakpoints of whole-number outputs, so that all values are *)
(* dyadic and the floating-point arithmetic of the program is exact on     *)
(* them.                                                                   *)
(*                                                                         *)
(* Strings.  A string is the sequence of its characters.                   *)
(*                                                                         *)
(* Exceptions.  A call returns a record [err, val]: err = "none" and the   *)
(* returned value, or the name of the exception thrown ("TypeError" or     *)
(* "Error") and val = <<>>.                                                *)
(***************************************************************************)
EXTENDS Integers, Sequences, FiniteSets

VARIABLES
    call,        \* the operation this run applies to its inputs
    pc,          \* "ready" | "done" | "reparsed"
    segments,    \* parse: the normalized commands (line 103)
    path,        \* serialize, getYForX: the Path argument
    outputRange, \* interpolatePath: the list of Paths
    inputRange,  \* interpolatePath: the breakpoints
    value,       \* interpolatePath: the animation value
    x,           \* getYForX: the query
    result,      \* what the operation returned or threw
    reparsed     \* parse, again, of the serialized result of parse

vars == <<call, pc, segments, path, outputRange, inputRange, value, x, result, reparsed>>

-----------------------------------------------------------------------------
(* Bounds *)

\* longest Path / command sequence given to serialize, parse and getYForX
MaxLen == 3
\* longest Path given to interpolatePath
MaxInterpLen == 2
\* most Paths (and breakpoints) given to interpolatePath
MaxPaths == 3

-----------------------------------------------------------------------------
(* Results *)

Return(v) == [err |-> "none", val |-> v]

Throw(e) == [err |-> e, val |-> <<>>]

NotCalled == [err |-> "not called", val |-> <<>>]

-----------------------------------------------------------------------------
(* Number -> string, as the template literals `${c.x}` do it *)

DigitChar == <<"0", "1", "2", "3", "4", "5", "6", "7", "8", "9">>

RECURSIVE Digits(_)
Digits(n) ==
    IF n < 10 THEN <<DigitChar[n + 1]>>
    ELSE Digits(n \div 10) \o <<DigitChar[(n % 10) + 1]>>

\* the number cut to its integer part
NumberToString_truncated(n) ==
    LET a == IF n < 0 THEN 0 - n ELSE n
    IN  (IF n < 0 THEN <<"-">> ELSE <<>>) \o Digits(a \div 2)

\* n stands for n/2: "-" if negative, the integer part, ".5" if n is odd
NumberToString(n) ==
    LET a == IF n < 0 THEN 0 - n ELSE n
    IN  (IF n < 0 THEN <<"-">> ELSE <<>>)
        \o Digits(a \div 2)
        \o (IF a % 2 = 1 THEN <<".", "5">> ELSE <<>>)

-----------------------------------------------------------------------------
(* The Path data model *)

MOVE == 0
CURVE == 1
CLOSE == 2

Vector(vx, vy) == [x |-> vx, y |-> vy]

move(mx, my) == [type |-> MOVE, x |-> mx, y |-> my]

curve(c) == [type |-> CURVE, c1 |-> c.c1, c2 |-> c.c2, to |-> c.to, from |-> c.from]

close == [type |-> CLOSE]

isMove(command) == command.type = MOVE

isCurve(command) == command.type = CURVE

isClose(command) == command.type = CLOSE

-----------------------------------------------------------------------------
(* serialize *)

serializeMove(c) ==
    <<"M">> \o NumberToString(c.x) \o <<",">> \o NumberToString(c.y) \o <<" ">>

serializeClose == <<"Z">>

\* c2 written before c1
serializeCurve_c2First(c) ==
    <<"C">> \o NumberToString(c.c2.x) \o <<",">> \o NumberToString(c.c2.y) \o <<" ">>
            \o NumberToString(c.c1.x) \o <<",">> \o NumberToString(c.c1.y) \o <<" ">>
            \o NumberToString(c.to.x) \o <<",">> \o NumberToString(c.to.y) \o <<" ">>

serializeCurve(c) ==
    <<"C">> \o NumberToString(c.c1.x) \o <<",">> \o NumberToString(c.c1.y) \o <<" ">>
            \o NumberToString(c.c2.x) \o <<",">> \o NumberToString(c.c2.y) \o <<" ">>
            \o NumberToString(c.to.x) \o <<",">> \o NumberToString(c.to.y) \o <<" ">>

\* the callback of path.map (lines 82-93); <<>> stands for the throw of
\* exhaustiveCheck, which no Segment of the three kinds reaches
SerializeSegment(segment) ==
    IF isMove(segment) THEN serializeMove(segment)
    ELSE IF isCurve(segment) THEN serializeCurve(segment)
    ELSE IF isClose(segment) THEN serializeClose
    ELSE <<>>

exhaustiveCheck(p) == \E i \in 1..Len(p) : p[i].type \notin {MOVE, CURVE, CLOSE}

\* tokens.reduce((acc, c) => acc + c) on a non-empty array
RECURSIVE Reduce(_)
Reduce(tokens) ==
    IF Len(tokens) = 1 THEN tokens[1]
    ELSE Reduce(SubSeq(tokens, 1, Len(tokens) - 1)) \o tokens[Len(tokens)]

\* reduce given the initial value "": the empty Path serializes to ""
serialize_initialValue(p) ==
    IF exhaustiveCheck(p) THEN Throw("TypeError")
    ELSE IF Len(p) = 0 THEN Return(<<>>)
    ELSE Return(Reduce([i \in 1..Len(p) |-> SerializeSegment(p[i])]))

\* reduce without an initial value throws a TypeError on the empty array
serialize(p) ==
    IF exhaustiveCheck(p) THEN Throw("TypeError")
    ELSE IF Len(p) = 0 THEN Throw("TypeError")
    ELSE Return(Reduce([i \in 1..Len(p) |-> SerializeSegment(p[i])]))

-----------------------------------------------------------------------------
(* parse: the adapter over the normalized commands.  A command is the      *)
(* tuple of the source, <<"M", x, y>>, <<"C", c1x, c1y, c2x, c2y, x, y>>   *)
(* or <<"Z">>; the source's segment[k] is the tuple's element k + 1.       *)

\* prev[k] ?? 0 : reading past the end of a tuple gives undefined
OrZero(prev, k) == IF k + 1 \in DOMAIN prev THEN prev[k + 1] ELSE 0

\* after a Close, from is the point of the last Move before it
CurveFrom_lastMove(segs, index) ==
    LET prev  == segs[index]
        moves == {k \in 1..index : segs[k][1] = "M"}
        last  == CHOOSE k \in moves : \A m \in moves : m <= k
    IN  IF prev[1] = "Z" /\ moves # {}
        THEN Vector(segs[last][2], segs[last][3])
        ELSE Vector(IF prev[1] = "M" THEN OrZero(prev, 1) ELSE OrZero(prev, 5),
                    IF prev[1] = "M" THEN OrZero(prev, 2) ELSE OrZero(prev, 6))

\* segments[index - 1] of a Curve command; index is the source's 0-based one
CurveFrom(segs, index) ==
    LET prev == segs[index]
    IN  Vector(IF prev[1] = "M" THEN OrZero(prev, 1) ELSE OrZero(prev, 5),
               IF prev[1] = "M" THEN OrZero(prev, 2) ELSE OrZero(prev, 6))

\* the callback of segments.map (lines 104-131), for the 1-based position i
ParseSegment(segs, i) ==
    LET segment == segs[i]
    IN  IF segment[1] = "M" THEN move(segment[2], segment[3])
        ELSE IF segment[1] = "Z" THEN close
        ELSE curve([c1   |-> Vector(segment[2], segment[3]),
                    c2   |-> Vector(segment[4], segment[5]),
                    to   |-> Vector(segment[6], segment[7]),
                    from |-> CurveFrom(segs, i - 1)])

\* a Curve command at index 0 reads prev[0] of segments[-1], undefined
ParseThrows(segs) == Len(segs) > 0 /\ segs[1][1] = "C"

parse(segs) ==
    IF ParseThrows(segs) THEN Throw("TypeError")
    ELSE Return([i \in 1..Len(segs) |-> ParseSegment(segs, i)])

-----------------------------------------------------------------------------
(* The text -> normalized commands step of line 103, for the texts that    *)
(* serialize produces: each command letter M, C or Z followed by its       *)
(* numbers, which commas and spaces separate.                              *)

IsCommandChar(ch) == ch \in {"M", "C", "Z"}

IsNumberChar(ch) == ch \in {DigitChar[d] : d \in 1..10} \cup {"."}

DigitOf(ch) == CHOOSE d \in 0..9 : DigitChar[d + 1] = ch

RECURSIVE DigitsValue(_)
DigitsValue(chars) ==
    IF Len(chars) = 0 THEN 0
    ELSE DigitsValue(SubSeq(chars, 1, Len(chars) - 1)) * 10 + DigitOf(chars[Len(chars)])

\* the number a token such as -12.5 denotes, in halves
ParseNumber(chars) ==
    LET neg  == chars[1] = "-"
        body == IF neg THEN Tail(chars) ELSE chars
        dots == {i \in 1..Len(body) : body[i] = "."}
        dot  == IF dots = {} THEN Len(body) + 1 ELSE CHOOSE i \in dots : TRUE
        int  == SubSeq(body, 1, dot - 1)
        frac == SubSeq(body, dot + 1, Len(body))
        mag  == 2 * DigitsValue(int) + (IF frac = <<"5">> THEN 1 ELSE 0)
    IN  IF neg THEN 0 - mag ELSE mag

Flush(acc, cur) == IF Len(cur) = 0 THEN acc ELSE Append(acc, ParseNumber(cur))

\* the numbers of a command's argument text: a "-" starts a number, any
\* character that is no part of a number ends one
RECURSIVE SplitNumbers(_, _, _)
SplitNumbers(chars, cur, acc) ==
    IF Len(chars) = 0 THEN Flush(acc, cur)
    ELSE IF Head(chars) = "-" THEN SplitNumbers(Tail(chars), <<"-">>, Flush(acc, cur))
    ELSE IF IsNumberChar(Head(chars))
         THEN SplitNumbers(Tail(chars), Append(cur, Head(chars)), acc)
    ELSE SplitNumbers(Tail(chars), <<>>, Flush(acc, cur))

NextCommand(text, i) ==
    LET later == {j \in (i + 1)..Len(text) : IsCommandChar(text[j])}
    IN  IF later = {} THEN Len(text) + 1
        ELSE CHOOSE j \in later : \A k \in later : j <= k

RECURSIVE ScanCommands(_, _, _)
ScanCommands(text, i, acc) ==
    IF i > Len(text) THEN acc
    ELSE IF IsCommandChar(text[i])
         THEN LET e == NextCommand(text, i)
              IN  ScanCommands(text, e,
                      Append(acc, <<text[i]>>
                                  \o SplitNumbers(SubSeq(text, i + 1, e - 1), <<>>, <<>>)))
    ELSE ScanCommands(text, i + 1, acc)

toNormalizedForm(text) == ScanCommands(text, 1, <<>>)

-----------------------------------------------------------------------------
(* interpolate of react-native-reanimated, with Extrapolate.CLAMP: the     *)
(* output at the nearest breakpoint outside the range, and inside it the   *)
(* linear blend of the two outputs whose breakpoints bracket v.            *)

interpolate(v, ir, or) ==
    LET n == Len(ir)
    IN  IF v <= ir[1] THEN or[1]
        ELSE IF v >= ir[n] THEN or[n]
        ELSE LET i == CHOOSE j \in 1..(n - 1) :
                          /\ v <= ir[j + 1]
                          /\ \A k \in 1..(j - 1) : v > ir[k + 1]
             IN  or[i] + ((v - ir[i]) * (or[i + 1] - or[i])) \div (ir[i + 1] - ir[i])

-----------------------------------------------------------------------------
(* interpolatePath *)

\* what outputRange.map throws at a Move or Curve of the first Path: the
\* first Path p, in order, whose p[index] is undefined (isMove or isCurve
\* then reads .type of undefined) or is of another kind (the explicit throw)
GatherError(ors, index, kind) ==
    LET bad == {k \in 1..Len(ors) : index > Len(ors[k]) \/ ors[k][index].type # kind}
    IN  IF bad = {} THEN "none"
        ELSE LET k == CHOOSE b \in bad : \A c \in bad : b <= c
             IN  IF index > Len(ors[k]) THEN "TypeError" ELSE "Error"

SegmentError(ors, index) ==
    LET segment == ors[1][index]
    IN  IF isMove(segment) THEN GatherError(ors, index, MOVE)
        ELSE IF isCurve(segment) THEN GatherError(ors, index, CURVE)
        ELSE "none"

\* lines 146-155: the point of every Path's Move at index
MovePoints(ors, index) ==
    [k \in 1..Len(ors) |-> [x |-> ors[k][index].x, y |-> ors[k][index].y]]

\* lines 173-183: to, c1 and c2 of every Path's Curve at index
CurvePoints(ors, index) ==
    [k \in 1..Len(ors) |->
        [to |-> ors[k][index].to, c1 |-> ors[k][index].c1, c2 |-> ors[k][index].c2]]

\* points.map((p) => p.x) and the like
Xs(points) == [k \in 1..Len(points) |-> points[k].x]

Ys(points) == [k \in 1..Len(points) |-> points[k].y]

Tos(curves) == [k \in 1..Len(curves) |-> curves[k].to]

C1s(curves) == [k \in 1..Len(curves) |-> curves[k].c1]

C2s(curves) == [k \in 1..Len(curves) |-> curves[k].c2]

InterpolateSegment_c2FromC1(v, ir, ors, index) ==
    LET segment == ors[1][index]
        points  == MovePoints(ors, index)
        curves  == CurvePoints(ors, index)
    IN  IF isMove(segment)
        THEN [type |-> MOVE,
              x |-> interpolate(v, ir, Xs(points)),
              y |-> interpolate(v, ir, Ys(points))]
        ELSE IF isCurve(segment)
        THEN [type |-> CURVE,
              to |-> Vector(interpolate(v, ir, Xs(Tos(curves))),
                            interpolate(v, ir, Ys(Tos(curves)))),
              c1 |-> Vector(interpolate(v, ir, Xs(C1s(curves))),
                            interpolate(v, ir, Ys(C1s(curves)))),
              c2 |-> Vector(interpolate(v, ir, Xs(C1s(curves))),
                            interpolate(v, ir, Ys(C1s(curves))))]
        ELSE segment

\* the callback of outputRange[0].map (lines 144-231) where nothing throws;
\* the Curve it builds has no from
InterpolateSegment(v, ir, ors, index) ==
    LET segment == ors[1][index]
        points  == MovePoints(ors, index)
        curves  == CurvePoints(ors, index)
    IN  IF isMove(segment)
        THEN [type |-> MOVE,
              x |-> interpolate(v, ir, Xs(points)),
              y |-> interpolate(v, ir, Ys(points))]
        ELSE IF isCurve(segment)
        THEN [type |-> CURVE,
              to |-> Vector(interpolate(v, ir, Xs(Tos(curves))),
                            interpolate(v, ir, Ys(Tos(curves)))),
              c1 |-> Vector(interpolate(v, ir, Xs(C1s(curves))),
                            interpolate(v, ir, Ys(C1s(curves)))),
              c2 |-> Vector(interpolate(v, ir, Xs(C2s(curves))),
                            interpolate(v, ir, Ys(C2s(curves))))]
        ELSE segment

interpolatePath(v, ir, ors) ==
    LET first  == ors[1]
        thrown == {i \in 1..Len(first) : SegmentError(ors, i) # "none"}
    IN  IF thrown # {}
        THEN Throw(SegmentError(ors, CHOOSE i \in thrown : \A j \in thrown : i <= j))
        ELSE serialize([i \in 1..Len(first) |-> InterpolateSegment(v, ir, ors, i)])

-----------------------------------------------------------------------------
(* getYForX *)

\* the value the solver of ./Math returns for these arguments
cubicBezierYForX(q, from, c1, c2, to) ==
    [fn |-> "cubicBezierYForX", args |-> <<q, from, c1, c2, to>>]

Number(n) == [fn |-> "number", args |-> <<n>>]

\* the ends of the interval left out
Brackets_exclusive(c, q) ==
    IF isCurve(c)
    THEN IF c.from.x > c.to.x
         THEN q > c.to.x /\ q < c.from.x
         ELSE q > c.from.x /\ q < c.to.x
    ELSE FALSE

\* the callback of path.filter (lines 292-300)
Brackets(c, q) ==
    IF isCurve(c)
    THEN IF c.from.x > c.to.x
         THEN q >= c.to.x /\ q <= c.from.x
         ELSE q >= c.from.x /\ q <= c.to.x
    ELSE FALSE

\* isCurve(p[0]) reads .type of undefined when the filter kept nothing
getYForX(pth, q) ==
    LET BracketsQ(c) == Brackets(c, q)
        p == SelectSeq(pth, BracketsQ)
    IN  IF Len(p) = 0 THEN Throw("TypeError")
        ELSE IF isCurve(p[1])
             THEN Return(cubicBezierYForX(q, p[1].from, p[1].c1, p[1].c2, p[1].to))
        ELSE Return(Number(0))

-----------------------------------------------------------------------------
(* The inputs *)

Seqs(S, n) == UNION {[1..k -> S] : k \in 0..n}

\* serialize: Paths of Moves, Curves and Closes whose coordinates differ
\* field by field (0,-1.5  12,0.5  ...)
SerializeSegments ==
    { move(0, -3), move(24, 1), close,
      curve([from |-> Vector(0, 0), c1 |-> Vector(2, -4),
             c2 |-> Vector(6, 9), to |-> Vector(20, 3)]),
      curve([from |-> Vector(20, 3), c1 |-> Vector(1, 0),
             c2 |-> Vector(0, 1), to |-> Vector(-5, -24)]) }

\* parse: the normalized commands of the same shapes
Commands ==
    { <<"M", 0, -3>>, <<"M", 24, 1>>, <<"Z">>,
      <<"C", 2, -4, 6, 9, 20, 3>>, <<"C", 1, 0, 0, 1, -5, -24>> }

\* getYForX: Curves between four points, two of the same x (a vertical
\* span), in both directions, and the queries below, at, between and above
GetYPoints == {Vector(0, 0), Vector(4, 7), Vector(8, 2), Vector(8, -6)}

GetYSegments ==
    { curve([from |-> ft[1], to |-> ft[2], c1 |-> Vector(2, 5), c2 |-> Vector(6, -1)]) :
        ft \in {pq \in GetYPoints \X GetYPoints : pq[1] # pq[2]} }
    \cup {move(0, 0), close}

Queries == {-2, 0, 3, 4, 8, 10}

\* interpolatePath: Path number i of the list has, at index j, the segment
\* of the given kind whose coordinates are whole numbers that depend on i,
\* j and the field
Whole(i, j, f) == 2 * (((i * i * 5 + j * 3 + f * 7) % 13) - 4)

SegmentOf(kind, i, j) ==
    IF kind = MOVE THEN move(Whole(i, j, 1), Whole(i, j, 2))
    ELSE IF kind = CURVE
    THEN curve([from |-> Vector(Whole(i, j, 3), Whole(i, j, 4)),
                c1   |-> Vector(Whole(i, j, 5), Whole(i, j, 6)),
                c2   |-> Vector(Whole(i, j, 7), Whole(i, j, 8)),
                to   |-> Vector(Whole(i, j, 9), Whole(i, j, 10))])
    ELSE close

PathOf(shape, i) == [j \in 1..Len(shape) |-> SegmentOf(shape[j], i, j)]

Shapes == Seqs({MOVE, CURVE, CLOSE}, MaxInterpLen)

\* lists of n Paths: all of one shape, or all but one
PathLists ==
    { [i \in 1..n |-> PathOf(IF i = k THEN s2 ELSE s1, i)] :
        n \in 2..MaxPaths, k \in 1..MaxPaths, s1 \in Shapes, s2 \in Shapes }

\* ascending breakpoints, unevenly spaced: 0, 1, 4, 9 .. and -3, -2, 1, 6 ..
InputRanges(n) ==
    { [i \in 1..n |-> 2 * (i - 1) * (i - 1) + d] : d \in {0, -6} }

\* the breakpoints, the values half-way between two, one below and one above
Values(ir) ==
    {ir[i] : i \in 1..Len(ir)}
    \cup {(ir[i] + ir[i + 1]) \div 2 : i \in 1..(Len(ir) - 1)}
    \cup {ir[1] - 2, ir[Len(ir)] + 2}

-----------------------------------------------------------------------------
(* The state machine: a run draws the arguments of one call and makes it *)

InitSerialize ==
    /\ call = "serialize"
    /\ path \in Seqs(SerializeSegments, MaxLen)
    /\ segments = <<>> /\ outputRange = <<>> /\ inputRange = <<>>
    /\ value = 0 /\ x = 0

InitParse ==
    /\ call = "parse"
    /\ segments \in Seqs(Commands, MaxLen)
    /\ path = <<>> /\ outputRange = <<>> /\ inputRange = <<>>
    /\ value = 0 /\ x = 0

InitInterpolatePath ==
    /\ call = "interpolatePath"
    /\ outputRange \in PathLists
    /\ inputRange \in InputRanges(Len(outputRange))
    /\ value \in Values(inputRange)
    /\ path = <<>> /\ segments = <<>> /\ x = 0

InitGetYForX ==
    /\ call = "getYForX"
    /\ path \in Seqs(GetYSegments, MaxLen)
    /\ x \in Queries
    /\ segments = <<>> /\ outputRange = <<>> /\ inputRange = <<>>
    /\ value = 0

Init ==
    /\ pc = "ready"
    /\ result = NotCalled
    /\ reparsed = NotCalled
    /\ \/ InitSerialize
       \/ InitParse
       \/ InitInterpolatePath
       \/ InitGetYForX

Serialize ==
    /\ call = "serialize" /\ pc = "ready"
    /\ result' = serialize(path)
    /\ pc' = "done"
    /\ UNCHANGED <<call, segments, path, outputRange, inputRange, value, x, reparsed>>

Parse ==
    /\ call = "parse" /\ pc = "ready"
    /\ result' = parse(segments)
    /\ pc' = "done"
    /\ UNCHANGED <<call, segments, path, outputRange, inputRange, value, x, reparsed>>

\* the Path parse returned is serialized, and the text parsed again
RoundTrip ==
    /\ call = "parse" /\ pc = "done" /\ result.err = "none"
    /\ reparsed' = LET text == serialize(result.val)
                   IN  IF text.err # "none" THEN text
                       ELSE parse(toNormalizedForm(text.val))
    /\ pc' = "reparsed"
    /\ UNCHANGED <<call, segments, path, outputRange, inputRange, value, x, result>>

InterpolatePath ==
    /\ call = "interpolatePath" /\ pc = "ready"
    /\ result' = interpolatePath(value, inputRange, outputRange)
    /\ pc' = "done"
    /\ UNCHANGED <<call, segments, path, outputRange, inputRange, value, x, reparsed>>

GetYForX ==
    /\ call = "getYForX" /\ pc = "ready"
    /\ result' = getYForX(path, x)
    /\ pc' = "done"
    /\ UNCHANGED <<call, segments, path, outputRange, inputRange, value, x, reparsed>>

Next ==
    \/ Serialize
    \/ Parse
    \/ RoundTrip
    \/ InterpolatePath
    \/ GetYForX

Spec == Init /\ [][Next]_vars

-----------------------------------------------------------------------------
(* The claims *)

Called(op) == call = op /\ pc # "ready"

Min(S) == CHOOSE m \in S : \A n \in S : m <= n

\* the Paths have the same length and, index by index, the same kinds
Symmetrical(ors) ==
    \A k \in 1..Len(ors) :
        /\ Len(ors[k]) = Len(ors[1])
        /\ \A j \in 1..Len(ors[1]) : ors[k][j].type = ors[1][j].type

\* C1: interpolatePath fails, and returns no string, whenever its Paths
\* differ in length or in the kind of the segment at some index.
C1_AsymmetricPathsFail ==
    Called("interpolatePath") /\ ~Symmetrical(outputRange) => result.err # "none"

\* C1, the part the code keeps: interpolatePath fails when, at an index
\* where the first Path holds a Move or a Curve, another Path ends or holds
\* a segment of another kind.
C1_FailsAtMoveOrCurveOfFirst ==
    Called("interpolatePath") =>
        (result.err # "none" <=>
            \/ \E j \in 1..Len(outputRange[1]), k \in 1..Len(outputRange) :
                   /\ outputRange[1][j].type \in {MOVE, CURVE}
                   /\ \/ j > Len(outputRange[k])
                      \/ outputRange[k][j].type # outputRange[1][j].type
            \/ Len(outputRange[1]) = 0)

\* the token the specification gives a segment
C2_Token(s) ==
    IF s.type = MOVE
    THEN <<"M">> \o NumberToString(s.x) \o <<",">> \o NumberToString(s.y) \o <<" ">>
    ELSE IF s.type = CURVE
    THEN <<"C">> \o NumberToString(s.c1.x) \o <<",">> \o NumberToString(s.c1.y)
         \o <<" ">> \o NumberToString(s.c2.x) \o <<",">> \o NumberToString(s.c2.y)
         \o <<" ">> \o NumberToString(s.to.x) \o <<",">> \o NumberToString(s.to.y)
         \o <<" ">>
    ELSE <<"Z">>

RECURSIVE C2_Tokens(_, _)
C2_Tokens(p, i) == IF i > Len(p) THEN <<>> ELSE C2_Token(p[i]) \o C2_Tokens(p, i + 1)

\* C2: serialize of a non-empty Path returns the concatenation, in segment
\* order, of one token per segment: "M{x},{y} ", "C{c1} {c2} {to} " (no
\* from), "Z".
C2_SerializeTokens ==
    Called("serialize") /\ Len(path) > 0 => result = Return(C2_Tokens(path, 1))

C2_Witness ==
    /\ Called("serialize") /\ result.err = "none"
    /\ Len(path) = 3
    /\ \A kind \in {MOVE, CURVE, CLOSE} : \E i \in 1..3 : path[i].type = kind

\* C3: with structurally identical Paths, interpolatePath at the first
\* breakpoint returns serialize of the first Path, and at the last
\* breakpoint serialize of the last Path.
C3_BoundaryReproduces ==
    Called("interpolatePath") /\ Symmetrical(outputRange) =>
        /\ value = inputRange[1] => result = serialize(outputRange[1])
        /\ value = inputRange[Len(inputRange)] =>
               result = serialize(outputRange[Len(outputRange)])

C3_Witness ==
    /\ Called("interpolatePath") /\ Symmetrical(outputRange)
    /\ Len(outputRange) = 3
    /\ value = inputRange[3]
    /\ \E i, j \in 1..Len(outputRange[1]) :
           outputRange[1][i].type = MOVE /\ outputRange[1][j].type = CURVE
    /\ result.err = "none"

\* the indices of the Curves whose x-interval, both ends included, holds q
C4_Bracketing(p, q) ==
    {i \in 1..Len(p) :
        /\ p[i].type = CURVE
        /\ LET a == p[i].from.x
               b == p[i].to.x
           IN  (IF a < b THEN a ELSE b) <= q /\ q <= (IF a < b THEN b ELSE a)}

C4_Solve(p, q, i) == cubicBezierYForX(q, p[i].from, p[i].c1, p[i].c2, p[i].to)

\* C4, the part the code keeps: when some Curve's x-interval contains x,
\* getYForX returns the solver's value on the first such Curve.
C4_FirstBracketWhenAny ==
    Called("getYForX") /\ C4_Bracketing(path, x) # {} =>
        result = Return(C4_Solve(path, x, Min(C4_Bracketing(path, x))))

\* C4: getYForX returns the solver's value on the first Curve, in path
\* order, whose x-interval contains x, and 0 when no Curve's does.
C4_FirstBracketOrZero ==
    Called("getYForX") =>
        result = IF C4_Bracketing(path, x) = {} THEN Return(Number(0))
                 ELSE Return(C4_Solve(path, x, Min(C4_Bracketing(path, x))))

\* the Path returned has the length and kinds of the commands, their
\* coordinates, and each Curve's from taken from a Move or CubicTo before it
C5_Copied ==
    /\ result.err = "none"
    /\ Len(result.val) = Len(segments)
    /\ \A i \in 1..Len(segments) :
           LET c == segments[i]
               s == result.val[i]
           IN  /\ c[1] = "M" => s = move(c[2], c[3])
               /\ c[1] = "Z" => s = close
               /\ c[1] = "C" =>
                      /\ s.type = CURVE
                      /\ s.c1 = Vector(c[2], c[3])
                      /\ s.c2 = Vector(c[4], c[5])
                      /\ s.to = Vector(c[6], c[7])
                      /\ i > 1 /\ segments[i - 1][1] = "M" =>
                             s.from = Vector(segments[i - 1][2], segments[i - 1][3])
                      /\ i > 1 /\ segments[i - 1][1] = "C" =>
                             s.from = Vector(segments[i - 1][6], segments[i - 1][7])

\* C5: parse returns, for every command sequence, a Path of the same
\* length and kinds, with the coordinates copied, and each Curve's from
\* taken from a Move or CubicTo just before it.
C5_ParseCopies == Called("parse") => C5_Copied

\* C5, the part the code keeps: the same for every command sequence whose
\* first command is not a CubicTo.
C5_ParseCopiesUnlessFirstCubic ==
    Called("parse") /\ ~(Len(segments) > 0 /\ segments[1][1] = "C") => C5_Copied

\* the positions of the CubicTo commands that follow a Close
CloseThenCubic(segs) ==
    {i \in 2..Len(segs) : segs[i][1] = "C" /\ segs[i - 1][1] = "Z"}

\* C6 as stated: parse fails when a CubicTo immediately follows a Close.
C6_CloseThenCubicFails ==
    Called("parse") /\ CloseThenCubic(segments) # {} => result.err # "none"

\* C6 as amended: a CubicTo immediately after a Close is no error of its
\* own (parse throws only when the first command is a CubicTo), and in the
\* Path returned that Curve has from = (0,0) and the command's c1, c2, to.
C6_CloseThenCubicDefaults ==
    Called("parse") /\ CloseThenCubic(segments) # {} =>
        /\ result.err # "none" => segments[1][1] = "C"
        /\ result.err = "none" =>
               \A i \in CloseThenCubic(segments) :
                   result.val[i] = curve([from |-> Vector(0, 0),
                                          c1 |-> Vector(segments[i][2], segments[i][3]),
                                          c2 |-> Vector(segments[i][4], segments[i][5]),
                                          to |-> Vector(segments[i][6], segments[i][7])])

C6_Witness ==
    /\ Called("parse") /\ result.err = "none"
    /\ Len(segments) = 3
    /\ segments[1][1] = "M" /\ segments[2][1] = "Z" /\ segments[3][1] = "C"
    /\ result.val[3].from = Vector(0, 0)

\* C7: when the first command is a CubicTo, parse does not fail and the
\* first segment is the Curve with from = (0,0) and the command's c1, c2, to.
C7_FirstCubicDefaults ==
    Called("parse") /\ Len(segments) > 0 /\ segments[1][1] = "C" =>
        /\ result.err = "none"
        /\ result.val[1] = curve([from |-> Vector(0, 0),
                                  c1 |-> Vector(segments[1][2], segments[1][3]),
                                  c2 |-> Vector(segments[1][4], segments[1][5]),
                                  to |-> Vector(segments[1][6], segments[1][7])])

\* C8: serialize of the empty Path fails and returns no string.
C8_EmptyPathFails ==
    Called("serialize") /\ Len(path) = 0 => result.err # "none"

C8_Witness ==
    Called("serialize") /\ Len(path) = 0 /\ result.err = "TypeError"

\* C9 as stated: every Path parse returns is returned again by parse of
\* the commands read back from its serialization.
C9_RoundTrip ==
    call = "parse" /\ pc = "reparsed" => reparsed = Return(result.val)

\* C9 as amended: every non-empty Path parse returns is returned again by
\* parse of the commands read back from its serialization.
C9_RoundTripNonEmpty ==
    call = "parse" /\ pc = "reparsed" /\ Len(result.val) > 0 =>
        reparsed = Return(result.val)

C9_Witness ==
    /\ call = "parse" /\ pc = "reparsed"
    /\ Len(result.val) = 3
    /\ result.val[1].type = MOVE /\ result.val[2].type = CURVE
    /\ result.val[3].type = CURVE
    /\ reparsed.err = "none"
    /\ reparsed.val[3].from = result.val[2].to

\* C10 as stated: getYForX never gives the solver a Curve with
\* from.x = to.x.
C10_VerticalNeverSolved ==
    Called("getYForX") /\ result.err = "none" /\ result.val.fn = "cubicBezierYForX" =>
        result.val.args[2].x # result.val.args[5].x

\* the positions of the Curves with from.x = to.x = q
C10_VerticalAt(p, q) ==
    {i \in 1..Len(p) : p[i].type = CURVE /\ p[i].from.x = p[i].to.x /\ p[i].from.x = q}

\* C10 as amended: a Curve with from.x = to.x = x brackets x like any
\* other, and getYForX gives it to the solver when no Curve before it
\* brackets x.
C10_VerticalSolvedWhenFirst ==
    Called("getYForX") =>
        \A i \in C10_VerticalAt(path, x) :
            (\A k \in 1..(i - 1) : k \notin C4_Bracketing(path, x)) =>
                result = Return(C4_Solve(path, x, i))

C10_Witness ==
    /\ Called("getYForX")
    /\ \E i \in C10_VerticalAt(path, x) :
           /\ i > 1 /\ path[i - 1].type = CURVE
           /\ \A k \in 1..(i - 1) : k \notin C4_Bracketing(path, x)
           /\ result = Return(C4_Solve(path, x, i))

=============================================================================
